---- MODULE Spec2Model ----
(***************************************************************************)
(* Streaming inference of native_client/deepspeech.cc: the three buffers   *)
(* of StreamingState (audio_buffer, mfcc_buffer, batch_buffer), the logits *)
(* accumulated from ModelState::infer, and the stream life cycle of the    *)
(* DS_* entry points.                                                      *)
(*                                                                         *)
(* Floats are modelled by integers: a pre-emphasised sample x - 0.97*last  *)
(* is kept in hundredths (100*x - 97*last).  The feature extractor         *)
(* (csf_mfcc), the TensorFlow session and the CTC decoder are external     *)
(* libraries; they are modelled as deterministic functions of their        *)
(* arguments (and, for the session, of its hidden recurrent state), with   *)
(* the session's failure and the extractor's frame count left to the       *)
(* environment.  assert() is modelled as compiled in: a failed assertion   *)
(* stops the process.                                                      *)
(***************************************************************************)
EXTENDS Integers, Sequences, FiniteSets, TLC

VARIABLES
  model,    \* ModelState: n_steps, n_context, mfcc_feats_per_timestep, and
            \* the recurrent state held inside the TensorFlow session (rnn)
  stream,   \* StreamingState: the fields of the struct
  pc,       \* where the client is in the stream's life cycle
  ghost,    \* history: samples fed, calls made, event log
  ret,      \* the last API call and the transcript it returned
  graph,    \* the model file handed to DS_CreateModel
  other     \* a second stream of the same model, while the client works
            \* on the first: its StreamingState, history and life cycle

vars == <<model, stream, pc, ghost, ret, graph, other>>

----------------------------------------------------------------------------
(* Program constants *)

BATCH_SIZE == 1

MFCC_FEATURES == 26

\* PREEMPHASIS_COEFF = 0.97f, in hundredths
PREEMPHASIS_COEFF == 97

\* denominator of the fixed-point representation of PREEMPHASIS_COEFF
PreemphasisScale == 100

(* Bounds of the model *)

\* AUDIO_WIN_LEN_SAMPLES is 400 and AUDIO_WIN_STEP_SAMPLES is 160 in the
\* source; the model keeps a window longer than two steps at a size TLC
\* can enumerate.
AUDIO_WIN_LEN_SAMPLES == 3

AUDIO_WIN_STEP_SAMPLES == 1

\* the input_node shapes a loaded model may have: n_steps in 1..MaxSteps,
\* context in 0..MaxContext
MaxSteps == 2

MaxContext == 1

\* alphabet->GetSize()
AlphabetSize == 1

\* sample sequences of arbitrary content are fed up to MaxFree samples;
\* sequences over LongSamples up to MaxFed samples
MaxFree == 7

MaxFed == 11

\* longest buffer passed to one DS_FeedAudioContent call
MaxChunk == 3

\* number of session->Run calls of one stream that may fail
MaxFailures == 1

\* samples fed to two streams of one model, taken together
MaxShared == 4

\* ranges of the abstract values computed by the external libraries
FeatMod == 3

RnnMod == 3

Samples == {-1, 1}

LongSamples == {1}

----------------------------------------------------------------------------
(* Helpers *)

Min(a, b) == IF a < b THEN a ELSE b

RECURSIVE SumRange(_, _, _)
SumRange(s, lo, hi) ==
  IF lo > hi THEN 0
  ELSE IF lo = hi THEN s[lo]
  ELSE LET mid == (lo + hi) \div 2
       IN  SumRange(s, lo, mid) + SumRange(s, mid + 1, hi)

SumSeq(s) == SumRange(s, 1, Len(s))

Zeros(n) == [i \in 1..n |-> 0]

\* std::rotate(v.begin(), v.begin() + k, v.end()); v.resize(v.size() - k):
\* the first k elements are dropped, the rest keep their order
RotateResize(v, k) == SubSeq(v, k + 1, Len(v))

\* feedAudioContent, "Shift data by one step"
shiftAudioBufferByWindow(v) == RotateResize(v, AUDIO_WIN_LEN_SAMPLES)

shiftAudioBuffer(v) == RotateResize(v, AUDIO_WIN_STEP_SAMPLES)

\* a context window emptied after each timestep instead of slid
shiftMfccBufferClears(v) == <<>>

\* pushMfccBuffer, "Shift data by one step of one mfcc feature vector"
shiftMfccBuffer(v) == RotateResize(v, MFCC_FEATURES)

\* std::min(len, (unsigned int)(cap - size)): when size exceeds cap the
\* unsigned difference wraps to 2^32 - (size - cap), which is more than any
\* len the model reaches
NextCopyAmount(len, cap, size) == IF size <= cap THEN Min(len, cap - size) ELSE len

----------------------------------------------------------------------------
(* External libraries, by their interface *)

\* csf_mfcc on a window: n_frames feature vectors of MFCC_FEATURES values
\* each, a deterministic function of the window (values 1..FeatMod)
csf_mfcc(buf, n_frames) ==
  LET sig == SumSeq([i \in 1..Len(buf) |-> i * buf[i]]) + Len(buf)
  IN  [k \in 1..(n_frames * MFCC_FEATURES) |-> 1 + ((sig + k) % FeatMod)]

\* session->Run of the acoustic model on n_frames timesteps of `input`:
\* the recurrent state advances once per real frame and each frame yields
\* num_classes logits
RECURSIVE SessionRun(_, _, _, _, _)
SessionRun(rnn, input, n_frames, feats, num_classes) ==
  IF n_frames = 0 THEN [rnn |-> rnn, logits |-> <<>>]
  ELSE LET h    == (2 * rnn + SumSeq(SubSeq(input, 1, feats)) + 1) % RnnMod
           rest == SessionRun(h, SubSeq(input, feats + 1, Len(input)),
                              n_frames - 1, feats, num_classes)
       IN  [rnn    |-> rest.rnn,
            logits |-> [c \in 1..num_classes |-> (h + c) % RnnMod] \o rest.logits]

\* the class with the largest value of one frame (the first on ties)
ArgMax(frame) ==
  CHOOSE c \in 1..Len(frame) :
    /\ \A d \in 1..Len(frame) : frame[d] <= frame[c]
    /\ \A d \in 1..(c - 1) : frame[d] < frame[c]

\* ctc_beam_search_decoder followed by LabelsToString, as a best-path
\* decoding: repeated labels collapse, the blank (the last class) is dropped;
\* no frames give the empty transcript
RECURSIVE CollapsePath(_, _, _)
CollapsePath(path, prev, blank) ==
  IF path = <<>> THEN <<>>
  ELSE LET c == Head(path)
           r == CollapsePath(Tail(path), c, blank)
       IN  IF c = blank \/ c = prev THEN r ELSE <<c>> \o r

ctc_beam_search_decoder(inputs, num_classes) ==
  CollapsePath([t \in 1..Len(inputs) |-> ArgMax(inputs[t])], 0, num_classes)

----------------------------------------------------------------------------
(* ModelState *)

\* const size_t num_classes = alphabet->GetSize() + 1
NumClasses == AlphabetSize + 1

\* The operators below act on a "world" w = [s, m, g]: the StreamingState s,
\* its ModelState m and the history g.  The environment o says which
\* session->Run calls fail (o.fails, by call number), which csf_mfcc call
\* returns a frame count other than one (o.badAt, o.badN), and whether the
\* call comes from feedAudioContent or finishStream (o.phase).

Event(kind, flag, n, o) == [ev |-> kind, flag |-> flag, n |-> n, phase |-> o.phase]

\* an event that keeps the values handed over (a feature vector, a timestep)
DataEvent(kind, flag, data, o) ==
  [ev |-> kind, flag |-> flag, n |-> Len(data), phase |-> o.phase, data |-> data]

\* infer with the early return on a failed Run left out: the output slots
\* are appended whether or not the call succeeded
inferAppendsOnFailure(w, aMfcc, n_frames, o) ==
  LET call   == w.g.n_infer + 1
      ok     == call \notin o.fails
      feats  == w.m.mfcc_feats_per_timestep
      input  == [i \in 1..(w.m.n_steps * feats) |->
                   IF i <= n_frames * feats THEN aMfcc[i] ELSE 0]
      run    == SessionRun(w.m.rnn, input, n_frames, feats, NumClasses)
      out    == IF ok THEN SubSeq(run.logits, 1, n_frames * BATCH_SIZE * NumClasses)
                ELSE Zeros(n_frames * BATCH_SIZE * NumClasses)
  IN  [w EXCEPT !.g.n_infer = call,
                !.g.failed = IF ok THEN @ ELSE @ \cup {call},
                !.g.log = Append(@, Event("infer", ok, n_frames, o)),
                !.m.rnn = IF ok THEN run.rnn ELSE @,
                !.s.accumulated_logits = @ \o out]

\* infer that keeps only the logits of the latest call
inferOverwrites(w, aMfcc, n_frames, o) ==
  LET call   == w.g.n_infer + 1
      ok     == call \notin o.fails
      feats  == w.m.mfcc_feats_per_timestep
      input  == [i \in 1..(w.m.n_steps * feats) |->
                   IF i <= n_frames * feats THEN aMfcc[i] ELSE 0]
      run    == SessionRun(w.m.rnn, input, n_frames, feats, NumClasses)
      logged == [w EXCEPT !.g.n_infer = call,
                          !.g.failed = IF ok THEN @ ELSE @ \cup {call},
                          !.g.log = Append(@, Event("infer", ok, n_frames, o))]
  IN  IF ~ok
      THEN logged
      ELSE [logged EXCEPT
              !.m.rnn = run.rnn,
              !.s.accumulated_logits =
                 SubSeq(run.logits, 1, n_frames * BATCH_SIZE * NumClasses)]

\* ModelState::infer
infer(w, aMfcc, n_frames, o) ==
  LET call   == w.g.n_infer + 1
      ok     == call \notin o.fails
      feats  == w.m.mfcc_feats_per_timestep
      input  == [i \in 1..(w.m.n_steps * feats) |->
                   IF i <= n_frames * feats THEN aMfcc[i] ELSE 0]
      run    == SessionRun(w.m.rnn, input, n_frames, feats, NumClasses)
      logged == [w EXCEPT !.g.n_infer = call,
                          !.g.failed = IF ok THEN @ ELSE @ \cup {call},
                          !.g.log = Append(@, Event("infer", ok, n_frames, o))]
  IN  IF ~ok
      THEN logged
      ELSE [logged EXCEPT
              !.m.rnn = run.rnn,
              !.s.accumulated_logits =
                 @ \o SubSeq(run.logits, 1, n_frames * BATCH_SIZE * NumClasses)]

\* decode that empties the vector it was handed by reference
decodeConsumes(logits) == [text |-> <<>>, logits |-> <<>>]

\* ModelState::decode: the transcript, and the logits it was handed by
\* reference
decode(logits) ==
  LET n_frames == Len(logits) \div (BATCH_SIZE * NumClasses)
      inputs   == [t \in 1..n_frames |->
                     [i \in 1..NumClasses |-> logits[(t - 1) * NumClasses + i]]]
  IN  [text |-> ctc_beam_search_decoder(inputs, NumClasses), logits |-> logits]

----------------------------------------------------------------------------
(* StreamingState *)

\* StreamingState::processBatch
processBatch(w, buf, n_steps, o) == infer(w, buf, n_steps, o)

\* StreamingState::processMfccWindow
RECURSIVE processMfccWindowLoop(_, _, _)
processMfccWindowLoop(w, rest, o) ==
  IF rest = <<>> \/ w.g.aborted THEN w
  ELSE LET cap  == w.m.n_steps * w.m.mfcc_feats_per_timestep
           next_copy_amount ==
             NextCopyAmount(Len(rest), cap, Len(w.s.batch_buffer))
           w1   == [w EXCEPT !.s.batch_buffer = @ \o SubSeq(rest, 1, next_copy_amount)]
           tail == SubSeq(rest, next_copy_amount + 1, Len(rest))
       IN  IF Len(w1.s.batch_buffer) > cap
           THEN [w1 EXCEPT !.g.aborted = TRUE]
           ELSE IF Len(w1.s.batch_buffer) = cap
           THEN processMfccWindowLoop(
                  [processBatch(w1, w1.s.batch_buffer, w1.m.n_steps, o)
                     EXCEPT !.s.batch_buffer = <<>>],
                  tail, o)
           ELSE processMfccWindowLoop(w1, tail, o)

processMfccWindow(w, buf, o) ==
  processMfccWindowLoop(
    [w EXCEPT !.g.log = Append(@, DataEvent("timestep", TRUE, buf, o))], buf, o)

\* StreamingState::pushMfccBuffer
RECURSIVE pushMfccBufferLoop(_, _, _)
pushMfccBufferLoop(w, buf, o) ==
  IF buf = <<>> \/ w.g.aborted THEN w
  ELSE LET feats == w.m.mfcc_feats_per_timestep
           next_copy_amount ==
             NextCopyAmount(Len(buf), feats, Len(w.s.mfcc_buffer))
           w1   == [w EXCEPT !.s.mfcc_buffer = @ \o SubSeq(buf, 1, next_copy_amount)]
           tail == SubSeq(buf, next_copy_amount + 1, Len(buf))
       IN  IF Len(w1.s.mfcc_buffer) > feats
           THEN [w1 EXCEPT !.g.aborted = TRUE]
           ELSE IF Len(w1.s.mfcc_buffer) = feats
           THEN LET w2 == processMfccWindow(w1, w1.s.mfcc_buffer, o)
                IN  pushMfccBufferLoop(
                      [w2 EXCEPT !.s.mfcc_buffer = shiftMfccBuffer(@)],
                      tail, o)
           ELSE pushMfccBufferLoop(w1, tail, o)

pushMfccBuffer(w, buf, o) ==
  pushMfccBufferLoop(
    [w EXCEPT !.g.log =
       Append(@, DataEvent("push", \A i \in 1..Len(buf) : buf[i] = 0, buf, o))],
    buf, o)

\* addZeroMfccWindow that pushes nothing
addZeroMfccWindowSkipped(w, o) == w

\* StreamingState::addZeroMfccWindow
addZeroMfccWindow(w, o) == pushMfccBuffer(w, Zeros(MFCC_FEATURES), o)

\* processAudioWindow that pushes whatever csf_mfcc returned
processAudioWindowUnchecked(w, buf, o) ==
  LET skip == ~w.s.skip_next_mfcc
      w1   == [w EXCEPT !.s.skip_next_mfcc = skip,
                        !.g.log = Append(@, Event("window", skip, Len(buf), o))]
  IN  IF ~skip
      THEN w1
      ELSE LET call     == w.g.n_mfcc + 1
               n_frames == IF call = o.badAt THEN o.badN ELSE 1
               mfcc     == csf_mfcc(buf, n_frames)
               w2       == [w1 EXCEPT !.g.n_mfcc = call,
                                      !.g.log = Append(@, Event("mfcc", n_frames = 1,
                                                                n_frames, o))]
           IN  pushMfccBuffer(w2, mfcc, o)

\* StreamingState::processAudioWindow
processAudioWindow(w, buf, o) ==
  LET skip == ~w.s.skip_next_mfcc
      w1   == [w EXCEPT !.s.skip_next_mfcc = skip,
                        !.g.log = Append(@, Event("window", skip, Len(buf), o))]
  IN  IF ~skip
      THEN w1
      ELSE LET call     == w.g.n_mfcc + 1
               n_frames == IF call = o.badAt THEN o.badN ELSE 1
               mfcc     == csf_mfcc(buf, n_frames)
               w2       == [w1 EXCEPT !.g.n_mfcc = call,
                                      !.g.log = Append(@, Event("mfcc", n_frames = 1,
                                                                n_frames, o))]
           IN  IF n_frames # 1
               THEN [w2 EXCEPT !.g.aborted = TRUE]
               ELSE pushMfccBuffer(w2, mfcc, o)

\* the inner loop with last_sample kept in a local that starts at 0
RECURSIVE bufferSamplesLocal(_, _, _)
bufferSamplesLocal(s, buffer, last) ==
  IF buffer = <<>> \/ Len(s.audio_buffer) >= AUDIO_WIN_LEN_SAMPLES THEN s
  ELSE bufferSamplesLocal(
         [s EXCEPT !.audio_buffer =
                      Append(@, PreemphasisScale * Head(buffer) - PREEMPHASIS_COEFF * last),
                   !.last_sample = Head(buffer)],
         Tail(buffer), Head(buffer))

bufferSamplesForgetsLast(s, buffer) == bufferSamplesLocal(s, buffer, 0)

\* the inner loop of feedAudioContent: pre-emphasis of each sample
RECURSIVE bufferSamples(_, _)
bufferSamples(s, buffer) ==
  IF buffer = <<>> \/ Len(s.audio_buffer) >= AUDIO_WIN_LEN_SAMPLES THEN s
  ELSE LET sample == PreemphasisScale * Head(buffer)
                       - PREEMPHASIS_COEFF * s.last_sample
       IN  bufferSamples([s EXCEPT !.audio_buffer = Append(@, sample),
                                   !.last_sample = Head(buffer)],
                         Tail(buffer))

\* StreamingState::feedAudioContent
RECURSIVE feedAudioContent(_, _, _)
feedAudioContent(w, buffer, o) ==
  IF buffer = <<>> \/ w.g.aborted THEN w
  ELSE LET taken == Min(Len(buffer),
                        AUDIO_WIN_LEN_SAMPLES - Len(w.s.audio_buffer))
           w1    == [w EXCEPT !.s = bufferSamples(@, buffer)]
           rest  == SubSeq(buffer, taken + 1, Len(buffer))
       IN  IF Len(w1.s.audio_buffer) = AUDIO_WIN_LEN_SAMPLES
           THEN LET w2 == processAudioWindow(w1, w1.s.audio_buffer, o)
                IN  IF w2.g.aborted THEN w2
                    ELSE feedAudioContent(
                           [w2 EXCEPT !.s.audio_buffer = shiftAudioBuffer(@)],
                           rest, o)
           ELSE feedAudioContent(w1, rest, o)

\* StreamingState::intermediateDecode
intermediateDecode(s) == decode(s.accumulated_logits)

\* a flush that extracts the residual samples whatever the toggle says
finishFlushBypassesToggle(w, o) ==
  processAudioWindow([w EXCEPT !.s.skip_next_mfcc = FALSE], w.s.audio_buffer, o)

\* StreamingState::finishStream, "Flush audio buffer"
finishFlush(w, o) == processAudioWindow(w, w.s.audio_buffer, o)

\* StreamingState::finishStream, "Add empty mfcc vectors at end of sample"
RECURSIVE finishPadLoop(_, _, _)
finishPadLoop(w, i, o) ==
  IF ~(i < w.m.n_context) \/ w.g.aborted THEN w
  ELSE finishPadLoop(addZeroMfccWindow(w, o), i + 1, o)

\* the padding loop started at 1
finishPadFromOne(w, o) == finishPadLoop(w, 1, o)

finishPad(w, o) == finishPadLoop(w, 0, o)

\* finishStream without the final batch
finishBatchDropsPartial(w, o) == w

\* finishStream that runs the final batch even when batch_buffer is empty
finishBatchUnconditional(w, o) ==
  processBatch(w, w.s.batch_buffer,
               Len(w.s.batch_buffer) \div w.m.mfcc_feats_per_timestep, o)

\* StreamingState::finishStream, "Process final batch"
finishBatch(w, o) ==
  IF Len(w.s.batch_buffer) > 0
  THEN processBatch(w, w.s.batch_buffer,
                    Len(w.s.batch_buffer) \div w.m.mfcc_feats_per_timestep, o)
  ELSE w

\* StreamingState::finishStream up to its return statement
finishStream(w, o) == finishBatch(finishPad(finishFlush(w, o), o), o)

----------------------------------------------------------------------------
(* Loading a model and setting up a stream *)

\* the shape of input_node of a model file: [batch, n_steps,
\* 2*context + 1, MFCC_FEATURES], the shape DS_CreateModel's message asks
\* of a model file (it does not compare the last dimension with
\* MFCC_FEATURES itself)
ModelShapes ==
  { <<BATCH_SIZE, n, 2 * c + 1, MFCC_FEATURES>> : n \in 1..MaxSteps, c \in 0..MaxContext }

\* integer division of C++, which truncates towards zero
CDiv(a, b) == IF a >= 0 THEN a \div b ELSE -((-a) \div b)

\* DS_CreateModel, the fields read from input_node; rnn is the recurrent
\* state of the freshly created session
CreateModel(shape, rnn) ==
  [n_steps                 |-> shape[2],
   n_context               |-> CDiv(shape[3] - 1, 2),
   mfcc_feats_per_timestep |-> shape[3] * shape[4],
   rnn                     |-> rnn]

\* DS_SetupStream with skip_next_mfcc starting true
SetupStreamSkipFirst(m) ==
  [accumulated_logits |-> <<>>, audio_buffer |-> <<>>, last_sample |-> 0,
   mfcc_buffer |-> Zeros(MFCC_FEATURES * m.n_context), batch_buffer |-> <<>>,
   skip_next_mfcc |-> TRUE]

\* DS_SetupStream with mfcc_buffer resized to n_context values
SetupStreamContextUnscaled(m) ==
  [accumulated_logits |-> <<>>, audio_buffer |-> <<>>, last_sample |-> 0,
   mfcc_buffer |-> Zeros(m.n_context), batch_buffer |-> <<>>,
   skip_next_mfcc |-> FALSE]

\* DS_SetupStream with mfcc_buffer resized to a whole timestep of zeros
SetupStreamFullContext(m) ==
  [accumulated_logits |-> <<>>, audio_buffer |-> <<>>, last_sample |-> 0,
   mfcc_buffer |-> Zeros(m.mfcc_feats_per_timestep), batch_buffer |-> <<>>,
   skip_next_mfcc |-> FALSE]

\* DS_SetupStream: the StreamingState handed back
SetupStream(m) ==
  [accumulated_logits |-> <<>>,
   audio_buffer       |-> <<>>,
   last_sample        |-> 0,
   mfcc_buffer        |-> Zeros(MFCC_FEATURES * m.n_context),
   batch_buffer       |-> <<>>,
   skip_next_mfcc     |-> FALSE]

\* DS_SetupStream that leaves the session's recurrent state as it finds it
InitializeStateSkipped(m) == m

\* session->Run({}, {}, {"initialize_state"}, nullptr)
InitializeState(m) == [m EXCEPT !.rnn = 0]

\* the history of a stream that has just been set up
NoHistory ==
  [fed |-> <<>>, n_mfcc |-> 0, n_infer |-> 0, failed |-> {}, log |-> <<>>,
   aborted |-> FALSE]

World == [s |-> stream, m |-> model, g |-> ghost]

\* the history of a stream that DS_SetupStream has just returned: the
\* session's initialize_state has run
SetupHistory ==
  [NoHistory EXCEPT !.log = <<Event("reset", TRUE, 0, [phase |-> "setup"])>>]

Env(fails, badAt, badN, phase) ==
  [fails |-> fails, badAt |-> badAt, badN |-> badN, phase |-> phase]

\* no csf_mfcc call misbehaves
Conforming(fails, phase) == Env(fails, 0, 1, phase)

----------------------------------------------------------------------------
(* The client's inputs *)

\* buffers passed to DS_FeedAudioContent
Chunks == UNION { [1..n -> Samples] : n \in 0..MaxChunk }

AllowedInput(seq) ==
  /\ \/ Len(seq) <= MaxFree
     \/ Len(seq) <= MaxFed /\ \A i \in 1..Len(seq) : seq[i] \in LongSamples
  /\ other.pc = "none" \/ Len(seq) + Len(other.g.fed) <= MaxShared

\* frame counts with which csf_mfcc breaks its contract
BadFrameCounts == {0, 2}

\* The environment's choices for an operation started in the current state,
\* given the world w0 it reaches when every call conforms: which of the
\* session->Run calls it makes fail, and which of its csf_mfcc calls (if any)
\* returns a wrong frame count.
Envs(w0, phase) ==
  { Env(ghost.failed \cup f, b[1], b[2], phase) :
      f \in { x \in SUBSET ((ghost.n_infer + 1)..w0.g.n_infer) :
                Cardinality(ghost.failed \cup x) <= MaxFailures },
      b \in {<<0, 1>>} \cup
            (((ghost.n_mfcc + 1)..w0.g.n_mfcc) \X BadFrameCounts) }

\* streams whose batch_buffer is one object shared by all of them
BystanderSharesBatch(o, w) ==
  IF o.pc = "active" THEN [o EXCEPT !.s.batch_buffer = w.s.batch_buffer] ELSE o

\* What a call on one StreamingState, ending in world w, leaves of another
\* stream o of the same model: every buffer is a member of the
\* StreamingState the call was given, so o keeps its own.
Bystander(o, w) == o

\* the state after an operation that ended in world w
Lands(w, next, op) ==
  /\ stream' = w.s
  /\ model' = w.m
  /\ ghost' = w.g
  /\ pc' = IF w.g.aborted THEN "aborted" ELSE next
  /\ ret' = [op |-> op, text |-> <<>>]
  /\ other' = Bystander(other, w)
  /\ UNCHANGED graph

----------------------------------------------------------------------------
(* The state machine: one client, one model, one stream at a time *)

NoStream ==
  [accumulated_logits |-> <<>>, audio_buffer |-> <<>>, last_sample |-> 0,
   mfcc_buffer |-> <<>>, batch_buffer |-> <<>>, skip_next_mfcc |-> FALSE]

\* no second stream: the client keeps to one stream at a time
NoOther == [s |-> NoStream, g |-> NoHistory, pc |-> "none"]

\* no second stream yet: the client will open one
SecondUnused == [NoOther EXCEPT !.pc = "unused"]

\* a model file that DS_CreateModel loads into a usable model: readable, an
\* input_node of the given shape, a logits_shape that fits the alphabet
WellFormed(shape) ==
  [path |-> TRUE, tf |-> TRUE, input_node |-> shape,
   logits_shape |-> <<shape[2], BATCH_SIZE, NumClasses>>]

\* The session's initialize_state seen from a stream o that is using the
\* session: DS_SetupStream runs it on aCtx->session, which every stream of
\* the model shares.
SessionReset(o) ==
  IF o.pc = "active"
  THEN [o EXCEPT !.g.log = Append(@, Event("reset", FALSE, 0, [phase |-> "setup"]))]
  ELSE o

\* A model has been loaded by DS_CreateModel; no stream exists yet.
Init ==
  /\ \E shape \in ModelShapes, rnn \in 0..(RnnMod - 1) :
       /\ graph = WellFormed(shape)
       /\ model = CreateModel(shape, rnn)
  /\ other = NoOther
  /\ stream = NoStream
  /\ pc = "loaded"
  /\ ghost = NoHistory
  /\ ret = [op |-> "create", text |-> <<>>]

\* DS_SetupStream when initialize_state fails: the error is returned and
\* *retval stays null
SetupFails ==
  /\ pc \in {"loaded", "finished", "discarded"}
  /\ ret' = [op |-> "setup_error", text |-> <<>>]
  /\ UNCHANGED <<model, stream, pc, ghost, graph, other>>

\* DS_SetupStream
Setup ==
  /\ pc \in {"loaded", "finished", "discarded"}
  /\ other.pc \in {"none", "unused"}
  /\ model' = InitializeState(model)
  /\ stream' = SetupStream(model)
  /\ ghost' = SetupHistory
  /\ pc' = "active"
  /\ ret' = [op |-> "setup", text |-> <<>>]
  /\ UNCHANGED <<graph, other>>

\* DS_FeedAudioContent
Feed ==
  /\ pc = "active"
  /\ \E chunk \in Chunks :
       /\ AllowedInput(ghost.fed \o chunk)
       /\ LET feed(w, o) ==
                feedAudioContent([w EXCEPT !.g.fed = @ \o chunk], chunk, o)
          IN  \E o \in Envs(feed(World, Conforming(ghost.failed, "feed")), "feed") :
                Lands(feed(World, o), "active", "feed")

\* DS_IntermediateDecode
IntermediateDecode ==
  /\ pc = "active"
  /\ LET d == intermediateDecode(stream)
     IN  /\ stream' = [stream EXCEPT !.accumulated_logits = d.logits]
         /\ ret' = [op |-> "intermediate", text |-> d.text]
  /\ UNCHANGED <<model, pc, ghost, graph, other>>

\* DS_FinishStream, first statement of finishStream
FinishFlush ==
  /\ pc = "active"
  /\ \E o \in Envs(finishFlush(World, Conforming(ghost.failed, "finish")), "finish") :
       Lands(finishFlush(World, o), "flushed", "finish")

\* DS_FinishStream, the padding loop of finishStream
FinishPad ==
  /\ pc = "flushed"
  /\ \E o \in Envs(finishPad(World, Conforming(ghost.failed, "finish")), "finish") :
       Lands(finishPad(World, o), "padded", "finish")

\* DS_FinishStream, the final batch of finishStream
FinishBatch ==
  /\ pc = "padded"
  /\ \E o \in Envs(finishBatch(World, Conforming(ghost.failed, "finish")), "finish") :
       Lands(finishBatch(World, o), "batched", "finish")

\* DS_FinishStream, the decoding that finishStream returns, and the
\* DS_DiscardStream that follows it; the freed StreamingState keeps its
\* last contents in `stream`
FinishDecode ==
  /\ pc = "batched"
  /\ LET d == decode(stream.accumulated_logits)
     IN  /\ stream' = [stream EXCEPT !.accumulated_logits = d.logits]
         /\ ret' = [op |-> "finish", text |-> d.text]
  /\ pc' = "finished"
  /\ UNCHANGED <<model, ghost, graph, other>>

\* DS_DiscardStream
Discard ==
  /\ pc = "active"
  /\ pc' = "discarded"
  /\ ret' = [op |-> "discard", text |-> <<>>]
  /\ UNCHANGED <<model, stream, ghost, graph, other>>

\* the entry points that take a StreamingState*
StreamCalls == {"feed", "intermediate", "finish", "discard"}

\* Any entry point called with the pointer of a stream that DS_FinishStream
\* or DS_DiscardStream has deleted.  No entry point checks its argument: the
\* call dereferences freed memory, which is undefined behaviour.  The process
\* may crash ("crashed") or the call may run on the freed object ("corrupt").
StaleCall ==
  /\ pc \in {"finished", "discarded"}
  /\ \E op \in StreamCalls, outcome \in {"crashed", "corrupt"} :
       /\ pc' = outcome
       /\ ret' = [op |-> op, text |-> <<>>]
  /\ UNCHANGED <<model, stream, ghost, graph, other>>

Next ==
  \/ SetupFails
  \/ Setup
  \/ Feed
  \/ IntermediateDecode
  \/ FinishFlush
  \/ FinishPad
  \/ FinishBatch
  \/ FinishDecode
  \/ Discard
  \/ StaleCall

Spec == Init /\ [][Next]_vars

----------------------------------------------------------------------------
(* Two streams of one model.  The calls are whole and interleave in any
   order; `stream`, `ghost` and `pc` are the stream the client is calling,
   `other` is the stream it is not calling at the moment.  The client opens
   no third stream once it holds two handles. *)

\* DS_SetupStream on the model of a stream that is still live: the client
\* keeps the first handle and goes on with the new one
SetupSecond ==
  /\ pc = "active"
  /\ other.pc = "unused"
  /\ model' = InitializeState(model)
  /\ stream' = SetupStream(model)
  /\ ghost' = SetupHistory
  /\ pc' = "active"
  /\ ret' = [op |-> "setup", text |-> <<>>]
  /\ other' = SessionReset([s |-> stream, g |-> ghost, pc |-> pc])
  /\ UNCHANGED graph

\* the client turns to its other handle; no call is made
Switch ==
  /\ pc \in {"active", "finished", "discarded"}
  /\ other.pc \in {"active", "finished", "discarded"}
  /\ stream' = other.s
  /\ ghost' = other.g
  /\ pc' = other.pc
  /\ other' = [s |-> stream, g |-> ghost, pc |-> pc]
  /\ UNCHANGED <<model, ret, graph>>

NextTwo ==
  \/ SetupFails
  \/ Setup
  \/ Feed
  \/ IntermediateDecode
  \/ FinishFlush
  \/ FinishPad
  \/ FinishBatch
  \/ FinishDecode
  \/ Discard
  \/ StaleCall
  \/ SetupSecond
  \/ Switch

\* A model has been loaded; the client is about to use two streams on it.
InitTwo ==
  /\ \E shape \in ModelShapes, rnn \in 0..(RnnMod - 1) :
       /\ graph = WellFormed(shape)
       /\ model = CreateModel(shape, rnn)
  /\ other = SecondUnused
  /\ stream = NoStream
  /\ pc = "loaded"
  /\ ghost = NoHistory
  /\ ret = [op |-> "create", text |-> <<>>]

SpecTwo == InitTwo /\ [][NextTwo]_vars

----------------------------------------------------------------------------
(* Loading a model *)

\* ModelState::ModelState: the unsigned fields start at -1, the value that
\* `n_context == -1` looks for after the graph has been read
ModelState(rnn) ==
  [n_steps |-> -1, n_context |-> -1, mfcc_feats_per_timestep |-> -1, rnn |-> rnn]

\* The model files handed to DS_CreateModel: a model path or none, a file
\* that TensorFlow reads or not, an input_node of some shape or none, a
\* logits_shape that parses or not.  Dimension sizes are not negative.
Graphs ==
  [path         : BOOLEAN,
   tf           : BOOLEAN,
   input_node   : {<<>>} \cup
                  { <<BATCH_SIZE, a, b, c>> :
                      a \in 0..MaxSteps, b \in 0..(2 * MaxContext + 1),
                      c \in {0, MFCC_FEATURES} },
   logits_shape : {<<>>} \cup
                  { <<MaxSteps, BATCH_SIZE, k>> : k \in {NumClasses, NumClasses + 1} }]

\* DS_CreateModel: the status code returned and the ModelState built
DS_CreateModel(g, rnn) ==
  LET fresh  == ModelState(rnn)
      loaded == IF g.input_node # <<>> THEN CreateModel(g.input_node, rnn) ELSE fresh
  IN  IF ~g.path THEN [code |-> "INVALID_ARGUMENT", model |-> fresh]
      ELSE IF ~g.tf THEN [code |-> "UNKNOWN", model |-> fresh]
      ELSE IF g.logits_shape # <<>> /\ g.logits_shape[3] - 1 # AlphabetSize
      THEN [code |-> "INVALID_ARGUMENT", model |-> fresh]
      ELSE IF loaded.n_context = -1
      THEN [code |-> "INVALID_ARGUMENT", model |-> fresh]
      ELSE [code |-> "OK", model |-> loaded]

\* Nothing is loaded; the client holds a model file.
InitLoad ==
  /\ graph \in Graphs
  /\ model \in { ModelState(rnn) : rnn \in 0..(RnnMod - 1) }
  /\ other = NoOther
  /\ stream = NoStream
  /\ pc = "unloaded"
  /\ ghost = NoHistory
  /\ ret = [op |-> "none", text |-> <<>>]

\* DS_CreateModel: *retval is the model when the code is OK, null otherwise
LoadModel ==
  /\ pc = "unloaded"
  /\ LET r == DS_CreateModel(graph, model.rnn)
     IN  /\ model' = r.model
         /\ pc' = IF r.code = "OK" THEN "loaded" ELSE "load_error"
  /\ ret' = [op |-> "create", text |-> <<>>]
  /\ UNCHANGED <<stream, ghost, graph, other>>

NextLoad == LoadModel

SpecLoad == InitLoad /\ [][NextLoad]_vars

----------------------------------------------------------------------------
(* Reading the history *)

Events(kind) == SelectSeq(ghost.log, LAMBDA e : e.ev = kind)

EventsIn(kind, phase) ==
  SelectSeq(ghost.log, LAMBDA e : e.ev = kind /\ e.phase = phase)

Frames(calls) == SumSeq([i \in 1..Len(calls) |-> calls[i].n])

\* the stream is alive or being finished (not freed, not stopped)
Live == pc \in {"active", "flushed", "padded", "batched"}

\* the world after DS_SetupStream and one DS_FeedAudioContent call with all
\* the samples fed so far, under the same engine behaviour
WholeFeed ==
  feedAudioContent(
    [s |-> SetupStream(model),
     m |-> InitializeState(model),
     g |-> [NoHistory EXCEPT !.fed = ghost.fed]],
    ghost.fed, Conforming(ghost.failed, "feed"))

\* ... followed by finishStream
WholeFinish == finishStream(WholeFeed, Conforming(ghost.failed, "finish"))

----------------------------------------------------------------------------
(* Claims *)

\* C1: chunking invariance.  However the samples fed so far were split into
\* DS_FeedAudioContent calls (empty buffers included), the stream's fields
\* and the session's recurrent state are those of a single call that feeds
\* them all, and after DS_FinishStream the logits and the transcript are
\* those of finishing after that single call.
ChunkingInvariance ==
  /\ pc = "active" =>
       /\ stream = WholeFeed.s
       /\ model = WholeFeed.m
  /\ pc = "finished" =>
       /\ stream.accumulated_logits = WholeFinish.s.accumulated_logits
       /\ ret.op = "finish" =>
            ret.text = decode(WholeFinish.s.accumulated_logits).text

\* C1 witness: a finished stream that was fed more samples than one call
\* takes, not all equal, over more than two windows, and produced logits
ChunkingWitness ==
  /\ pc = "finished"
  /\ ret.op = "finish"
  /\ Len(ghost.fed) > MaxChunk
  /\ Len(ghost.fed) > AUDIO_WIN_LEN_SAMPLES + AUDIO_WIN_STEP_SAMPLES
  /\ \E i \in 1..Len(ghost.fed) : ghost.fed[i] \notin LongSamples
  /\ stream.accumulated_logits # <<>>

\* C2: an empty stream (set up, then finished with no sample fed) makes no
\* csf_mfcc call, forms no timestep, makes no session->Run call, and the
\* decoder sees no logits and returns the empty transcript.
EmptyStreamIsEmpty ==
  (pc = "finished" /\ ret.op = "finish" /\ ghost.fed = <<>>) =>
    /\ ghost.n_mfcc = 0
    /\ Events("timestep") = <<>>
    /\ ghost.n_infer = 0
    /\ stream.accumulated_logits = <<>>
    /\ ret.text = <<>>

\* C3: a call on a stream that was finished or discarded is rejected; it
\* never runs on the freed StreamingState.
MisuseRejected == pc # "corrupt"

\* C4: fail-open.  A failed session->Run call appends nothing and a
\* successful one appends num_classes logits per frame, whatever failed
\* before it; the full batch is cleared from batch_buffer whether or not its
\* call failed; and DS_FinishStream returns the decoding of the accumulated
\* logits.
FailOpen ==
  /\ ~ghost.aborted =>
       Len(stream.accumulated_logits) =
         NumClasses * BATCH_SIZE *
           Frames(SelectSeq(ghost.log, LAMBDA e : e.ev = "infer" /\ e.flag))
  /\ pc \in {"active", "flushed", "padded"} =>
       Len(stream.batch_buffer) =
         model.mfcc_feats_per_timestep *
           (Len(Events("timestep")) - Frames(Events("infer")))
  /\ (pc = "finished" /\ ret.op = "finish") =>
       ret.text = decode(stream.accumulated_logits).text

\* C4 witness: a finished stream one of whose calls failed, with a
\* successful call after it
FailOpenWitness ==
  /\ pc = "finished"
  /\ ret.op = "finish"
  /\ \E i \in ghost.failed : \E j \in (i + 1)..ghost.n_infer : j \notin ghost.failed
  /\ stream.accumulated_logits # <<>>

\* C5: window arithmetic.  After exactly AUDIO_WIN_LEN_SAMPLES samples one
\* window has been processed and audio_buffer holds AUDIO_WIN_LEN_SAMPLES -
\* AUDIO_WIN_STEP_SAMPLES samples; after AUDIO_WIN_STEP_SAMPLES more, two
\* windows have been processed.
WindowArithmetic ==
  pc = "active" =>
    /\ Len(ghost.fed) = AUDIO_WIN_LEN_SAMPLES =>
         /\ Len(Events("window")) = 1
         /\ Len(stream.audio_buffer) = AUDIO_WIN_LEN_SAMPLES - AUDIO_WIN_STEP_SAMPLES
    /\ Len(ghost.fed) = AUDIO_WIN_LEN_SAMPLES + AUDIO_WIN_STEP_SAMPLES =>
         Len(Events("window")) = 2

\* C5 witness: exactly one window's worth of samples has been fed
WindowArithmeticWitness ==
  /\ pc = "active"
  /\ Len(ghost.fed) = AUDIO_WIN_LEN_SAMPLES
  /\ Len(Events("window")) = 1

\* C6 as stated: of the first two windows only the second yields a feature
\* vector.
SecondWindowEmits ==
  (Live /\ Len(Events("window")) >= 2) =>
    /\ ~Events("window")[1].flag
    /\ Events("window")[2].flag

\* C6 as amended: of the first two windows only the first yields a feature
\* vector; the second is skipped.
FirstWindowEmits ==
  LET windows == Events("window")
  IN  /\ (Live /\ Len(windows) >= 1) => windows[1].flag
      /\ (Live /\ Len(windows) >= 2) => ~windows[2].flag
      /\ (pc = "active" /\ Len(windows) = 2) =>
           /\ ghost.n_mfcc = 1
           /\ Len(Events("push")) = 1

\* C6 witness: two windows have been processed during feeding
FirstWindowEmitsWitness ==
  /\ pc = "active"
  /\ Len(EventsIn("window", "feed")) = 2
  /\ ghost.n_mfcc = 1

\* the batch boundary scenario: n_steps = 2, three 26-wide frames per
\* timestep, and a finished stream that formed five timesteps
FiveTimesteps ==
  /\ model.n_steps = 2
  /\ model.n_context = 1
  /\ model.mfcc_feats_per_timestep = 3 * MFCC_FEATURES
  /\ pc = "finished"
  /\ ret.op = "finish"
  /\ Len(Events("timestep")) = 5

\* C7 as stated: in the batch boundary scenario exactly two full-batch calls
\* (frame count 2) are made during feed and exactly one call, of frame count
\* 1, during finish.
TwoBatchesDuringFeed ==
  FiveTimesteps =>
    /\ Len(EventsIn("infer", "feed")) = 2
    /\ \A i \in 1..Len(EventsIn("infer", "feed")) : EventsIn("infer", "feed")[i].n = 2
    /\ Len(EventsIn("infer", "finish")) = 1
    /\ \A i \in 1..Len(EventsIn("infer", "finish")) : EventsIn("infer", "finish")[i].n = 1

\* C7 as amended: in the batch boundary scenario exactly three calls are
\* made, with frame counts 2, 2 and 1 in this order; the first is made during
\* feed and the last, the partial batch, during finish; the second is made
\* during feed when feeding produced five feature vectors, and during finish
\* when the fifth feature vector comes from the flush of finish.
BatchBoundary ==
  FiveTimesteps =>
    LET calls == Events("infer")
    IN  /\ Len(calls) = 3
        /\ calls[1].n = 2 /\ calls[2].n = 2 /\ calls[3].n = 1
        /\ calls[1].phase = "feed"
        /\ calls[3].phase = "finish"
        /\ calls[2].phase = "feed" <=> Len(EventsIn("push", "feed")) = 5
        /\ calls[2].phase = "finish" <=>
             (Len(EventsIn("push", "feed")) = 4 /\ EventsIn("window", "finish")[1].flag)

\* C7 witness: the scenario with both full batches formed during feed
BatchBoundaryWitness ==
  /\ FiveTimesteps
  /\ Len(EventsIn("infer", "feed")) = 2
  /\ Len(EventsIn("infer", "finish")) = 1

\* zero-valued feature vectors pushed by finishStream so far
ZeroPushes ==
  SelectSeq(ghost.log,
            LAMBDA e : e.ev = "push" /\ e.phase = "finish" /\ e.flag
                       /\ e.n = MFCC_FEATURES)

\* C8: context padding.  finishStream pushes exactly n_context zero-valued
\* vectors of MFCC_FEATURES values: none before the flush of audio_buffer has
\* been done, all of them before the final batch is processed, and no other
\* zero vector, however many samples were fed.
ContextPadding ==
  /\ pc \in {"active", "flushed"} => Len(ZeroPushes) = 0
  /\ pc \in {"padded", "batched", "finished"} =>
       /\ Len(ZeroPushes) = model.n_context
       /\ Len(SelectSeq(ghost.log, LAMBDA e : e.ev = "push" /\ e.flag))
            = model.n_context
       /\ Len(EventsIn("window", "finish")) = 1
       /\ Len(EventsIn("push", "finish")) - Len(ZeroPushes) =
            (IF EventsIn("window", "finish")[1].flag THEN 1 ELSE 0)

\* C8 witness: the padding of a stream with context has been pushed after
\* samples were fed, and the final batch is still to be processed
ContextPaddingWitness ==
  /\ pc = "padded"
  /\ model.n_context > 0
  /\ Len(ghost.fed) > AUDIO_WIN_LEN_SAMPLES
  /\ Len(ZeroPushes) = model.n_context
  /\ stream.batch_buffer # <<>>

\* C9: buffer alignment.  In every state mfcc_buffer holds whole feature
\* vectors and batch_buffer holds whole timesteps.
BufferAlignment ==
  /\ Len(stream.mfcc_buffer) % MFCC_FEATURES = 0
  /\ Len(stream.batch_buffer) % model.mfcc_feats_per_timestep = 0

\* C9 witness: in the middle of finishStream both buffers hold data
BufferAlignmentWitness ==
  /\ pc = "flushed"
  /\ stream.mfcc_buffer # <<>>
  /\ stream.batch_buffer # <<>>
  /\ \E i \in 1..Len(stream.mfcc_buffer) : stream.mfcc_buffer[i] # 0

\* C10: DS_IntermediateDecode is a read.  Called on an active stream it
\* changes no field of the stream, not the session's recurrent state, makes
\* no csf_mfcc or session->Run call, and returns the decoding of the logits;
\* called twice in a row it returns the same transcript.
IntermediateIsRead ==
  [][(pc = "active" /\ ret'.op = "intermediate") =>
       /\ stream' = stream
       /\ model' = model
       /\ ghost' = ghost
       /\ pc' = "active"
       /\ ret'.text = decode(stream.accumulated_logits).text
       /\ ret.op = "intermediate" => ret'.text = ret.text]_vars

\* C10 witness: an intermediate result was returned once logits existed
IntermediateWitness ==
  /\ pc = "active"
  /\ ret.op = "intermediate"
  /\ stream.accumulated_logits # <<>>
  /\ ret.text # <<>>

----------------------------------------------------------------------------
\* C11: DS_SetupStream resets the session's recurrent state once for the
\* stream it creates, before the stream makes any session->Run call: the
\* history of a stream starts with its one reset, and until its first
\* inference call the recurrent state is the reset one.  When
\* initialize_state fails, the error is returned and no stream comes to
\* exist: the client is left where it was, with no live stream.
ResetAtSetup ==
  /\ pc # "loaded" =>
        /\ Len(Events("reset")) = 1
        /\ ghost.log[1].ev = "reset"
  /\ Live /\ ghost.n_infer = 0 => model.rnn = 0
  /\ ret.op = "setup_error" =>
        /\ pc \in {"loaded", "finished", "discarded"}
        /\ pc = "loaded" => stream = NoStream /\ ghost = NoHistory

\* a stream that has made inference calls after its setup
ResetAtSetupWitness ==
  /\ Live
  /\ ghost.log[1].ev = "reset"
  /\ Len(Events("infer")) > 0
  /\ model.rnn # 0

----------------------------------------------------------------------------
\* the buffers of a StreamingState and the length of its logits
Buffers(s) ==
  <<s.audio_buffer, s.last_sample, s.skip_next_mfcc, s.mfcc_buffer,
    s.batch_buffer, Len(s.accumulated_logits)>>

\* C12: with two streams on one model and whole calls interleaved in any
\* order, a call on one stream leaves the audio_buffer, last_sample,
\* skip_next_mfcc, mfcc_buffer, batch_buffer and the length of the
\* accumulated logits of the other stream as they were: in every step the
\* stream not being called keeps them (or the client merely turns from one
\* handle to the other, and both streams keep theirs).
SessionsIndependent ==
  [][other.pc = "active" =>
       \/ Buffers(other'.s) = Buffers(other.s)
       \/ other'.s = stream /\ stream' = other.s]_vars

\* a feed with an inference call on one stream while the other stream is
\* live and holds samples
SessionsIndependentWitness ==
  /\ other.pc = "active"
  /\ other.s.audio_buffer # <<>>
  /\ pc = "active"
  /\ ret.op = "feed"
  /\ ghost.n_infer > 0

----------------------------------------------------------------------------
\* the fields that DS_CreateModel is to derive from the input_node of a
\* graph, as integers; none when there is no input_node
Derived(g) ==
  IF g.input_node = <<>> THEN <<>>
  ELSE <<g.input_node[2], CDiv(g.input_node[3] - 1, 2),
         g.input_node[3] * g.input_node[4]>>

\* C13: DS_CreateModel returns an error and no model whenever n_steps,
\* n_context or mfcc_feats_per_timestep cannot be derived from the graph or
\* comes out as zero or less, so that every model it returns has all three
\* fields positive.
ConfigurationRefused ==
  /\ pc = "loaded" =>
        /\ model.n_steps > 0
        /\ model.n_context > 0
        /\ model.mfcc_feats_per_timestep > 0
  /\ (ret.op = "create" /\ \/ Derived(graph) = <<>>
                            \/ \E i \in 1..Len(Derived(graph)) : Derived(graph)[i] <= 0)
       => pc = "load_error"

----------------------------------------------------------------------------
\* C14: every processAudioWindow step, on a full window during a feed or on
\* the residual samples at the flush of finishStream, flips skip_next_mfcc
\* and calls csf_mfcc exactly when the toggle is true after the flip.  So
\* the steps of a stream alternate emit, skip, emit, ... from the first on,
\* the flush is one more step of that sequence (skipped exactly when its
\* turn is a skip), and csf_mfcc has been called once per emitting step.
DecimationUniform ==
  LET ws    == Events("window")
      flush == EventsIn("window", "finish")
  IN  /\ \A i \in 1..Len(ws) : ws[i].flag = (i % 2 = 1)
      /\ Len(Events("mfcc")) = (Len(ws) + 1) \div 2
      /\ ghost.n_mfcc = Len(Events("mfcc"))
      /\ stream.skip_next_mfcc = (Len(ws) % 2 = 1)
      /\ \A i \in 1..Len(ws) :
            IF i = Len(ws) /\ flush # <<>>
            THEN ws[i].phase = "finish" /\ ws[i].n < AUDIO_WIN_LEN_SAMPLES
            ELSE ws[i].phase = "feed" /\ ws[i].n = AUDIO_WIN_LEN_SAMPLES
      /\ pc = "active" => flush = <<>>
      /\ pc \in {"flushed", "padded", "batched", "finished"} => Len(flush) = 1

\* a stream finished after several windows whose flush fell on a skip
DecimationUniformWitness ==
  /\ pc = "finished"
  /\ Len(Events("window")) >= 4
  /\ ~ EventsIn("window", "finish")[1].flag

----------------------------------------------------------------------------
\* the values of a sequence of events, one after the other
RECURSIVE Flatten(_)
Flatten(events) ==
  IF events = <<>> THEN <<>> ELSE Head(events).data \o Flatten(Tail(events))

\* the frames that have entered the context window of the stream: the
\* n_context zero frames of DS_SetupStream, then every vector handed to
\* pushMfccBuffer, in order (the zero vectors of finishStream come last)
FrameSequence ==
  Zeros(MFCC_FEATURES * model.n_context) \o Flatten(Events("push"))

\* C15: the k-th timestep handed to processMfccWindow is frames k to
\* k + 2 * n_context of the frame sequence made of n_context zero frames,
\* the feature vectors in the order they were pushed, and the zero frames
\* pushed by finishStream; a timestep is emitted for every such window that
\* is complete, and after each emission only the oldest frame has left the
\* mfcc_buffer, which holds the frames not yet followed by 2 * n_context
\* more.
ContextWindows ==
  LET ts    == Events("timestep")
      feats == model.mfcc_feats_per_timestep
      first(k) == (k - 1) * MFCC_FEATURES
      n     == Len(FrameSequence) \div MFCC_FEATURES
  IN  /\ \A k \in 1..Len(ts) :
            ts[k].data = SubSeq(FrameSequence, first(k) + 1, first(k) + feats)
      /\ pc # "loaded" =>
            /\ Len(ts) = IF n > 2 * model.n_context THEN n - 2 * model.n_context ELSE 0
            /\ stream.mfcc_buffer =
                 SubSeq(FrameSequence, first(Len(ts) + 1) + 1, Len(FrameSequence))

\* a finished stream with context on both sides and several timesteps
ContextWindowsWitness ==
  /\ pc = "finished"
  /\ model.n_context > 0
  /\ Len(Events("timestep")) >= 3
  /\ \E e \in {Events("push")[i] : i \in 1..Len(Events("push"))} : ~e.flag

----------------------------------------------------------------------------
\* the events that a step adds to the history of the stream
Added(kind) ==
  SelectSeq(SubSeq(ghost'.log, Len(ghost.log) + 1, Len(ghost'.log)),
            LAMBDA e : e.ev = kind)

\* what a step of a live stream does to batch_buffer, and the session->Run
\* calls it makes
BatchStep ==
  LET calls == Added("infer")
      feats == model.mfcc_feats_per_timestep
      held  == Len(stream.batch_buffer) \div feats
      now   == held + Len(Added("timestep"))
  IN  /\ \A i \in 1..Len(calls) : calls[i].n >= 1 /\ calls[i].n <= model.n_steps
      /\ IF pc = "padded"
         THEN /\ Len(calls) = IF stream.batch_buffer # <<>> THEN 1 ELSE 0
              /\ \A i \in 1..Len(calls) : calls[i].n = held
         ELSE /\ Len(calls) = now \div model.n_steps
              /\ \A i \in 1..Len(calls) : calls[i].n = model.n_steps
              /\ Len(stream'.batch_buffer) = feats * (now % model.n_steps)

\* C16: every session->Run call carries between 1 and n_steps frames.  A
\* call made because batch_buffer reached n_steps timesteps carries exactly
\* n_steps frames and leaves batch_buffer empty: in a feed, the flush or the
\* padding, calls are made each time the timesteps held reach n_steps, and
\* what remains afterwards is the timesteps beyond the last full batch.  The
\* call of finishStream's last step is made only if batch_buffer is not
\* empty, and carries Len(batch_buffer) / mfcc_feats_per_timestep frames.
InferenceFrameCounts ==
  [][(pc \in {"active", "flushed", "padded"}) => BatchStep]_vars

\* the last step of a finish has run a partial batch, after full batches
InferenceFrameCountsWitness ==
  /\ pc = "batched"
  /\ ret.op = "finish"
  /\ Len(Events("infer")) >= 2
  /\ Events("infer")[1].n = model.n_steps
  /\ Events("infer")[Len(Events("infer"))].phase = "finish"
  /\ Events("infer")[Len(Events("infer"))].n < model.n_steps
  /\ stream.batch_buffer # <<>>

----------------------------------------------------------------------------
\* what a step of a live stream does to accumulated_logits
LogitsStep ==
  LET before == stream.accumulated_logits
      after  == stream'.accumulated_logits
      ok     == SelectSeq(Added("infer"), LAMBDA e : e.flag)
  IN  /\ Len(after) >= Len(before)
      /\ SubSeq(after, 1, Len(before)) = before
      /\ Len(after) - Len(before) = NumClasses * Frames(ok)

\* C17: within a stream the accumulated logits only grow at the end: what
\* they were before any call is a prefix of what they are after it, each
\* successful session->Run call on n frames has added n * num_classes
\* values (a failed one none), and their length is always a multiple of
\* num_classes.
LogitsAppendOnly ==
  /\ [](Len(stream.accumulated_logits) % NumClasses = 0)
  /\ [][Live => LogitsStep]_vars

\* a feed that has added the logits of a second successful call to those
\* of a first
LogitsAppendOnlyWitness ==
  /\ pc = "active"
  /\ ret.op = "feed"
  /\ ghost.failed = {}
  /\ Len(Events("infer")) >= 2
  /\ Len(stream.accumulated_logits) = NumClasses * Frames(Events("infer"))

----------------------------------------------------------------------------
\* C18: audio_buffer never holds more than AUDIO_WIN_LEN_SAMPLES samples,
\* mfcc_buffer never more than mfcc_feats_per_timestep values, batch_buffer
\* never more than n_steps * mfcc_feats_per_timestep values; and whenever
\* the stream is between calls (DS_FeedAudioContent has returned, or
\* DS_SetupStream or DS_IntermediateDecode has) each of the three is
\* strictly below that capacity.
BufferBounds ==
  LET feats == model.mfcc_feats_per_timestep
      cap   == model.n_steps * feats
  IN  /\ Len(stream.audio_buffer) <= AUDIO_WIN_LEN_SAMPLES
      /\ Len(stream.mfcc_buffer) <= feats
      /\ Len(stream.batch_buffer) <= cap
      /\ pc = "active" =>
            /\ Len(stream.audio_buffer) < AUDIO_WIN_LEN_SAMPLES
            /\ Len(stream.mfcc_buffer) < feats
            /\ Len(stream.batch_buffer) < cap

\* a feed has returned after windows, timesteps and a full batch, with
\* something left in each buffer
BufferBoundsWitness ==
  /\ pc = "active"
  /\ ret.op = "feed"
  /\ ghost.n_infer > 0
  /\ stream.audio_buffer # <<>>
  /\ stream.mfcc_buffer # <<>>
  /\ stream.batch_buffer # <<>>

----------------------------------------------------------------------------
\* C19: when csf_mfcc returns a frame count other than one, in a feed or at
\* the flush of finishStream, the stream stops there: the call is the last
\* thing in its history (nothing is pushed, no timestep is formed, no
\* session->Run call is made after it), and mfcc_buffer, batch_buffer and
\* the accumulated logits hold what the vectors pushed before it account
\* for.
ContractViolationStops ==
  /\ \A i \in 1..Len(ghost.log) :
        (ghost.log[i].ev = "mfcc" /\ ghost.log[i].n # 1) =>
           i = Len(ghost.log) /\ pc = "aborted"
  /\ pc = "aborted" =>
        /\ ghost.log[Len(ghost.log)].ev = "mfcc"
        /\ ghost.log[Len(ghost.log)].n # 1
        /\ stream.mfcc_buffer =
             SubSeq(FrameSequence, Len(Events("timestep")) * MFCC_FEATURES + 1,
                    Len(FrameSequence))
        /\ Len(stream.batch_buffer) =
             model.mfcc_feats_per_timestep *
               (Len(Events("timestep")) - Frames(Events("infer")))
        /\ Len(stream.accumulated_logits) =
             NumClasses * Frames(SelectSeq(Events("infer"), LAMBDA e : e.flag))

\* a stream stopped at the flush of finishStream, after vectors were pushed
\* and logits accumulated
ContractViolationStopsWitness ==
  /\ pc = "aborted"
  /\ ret.op = "finish"
  /\ Len(Events("push")) > 0
  /\ stream.accumulated_logits # <<>>
  /\ stream.batch_buffer # <<>>

----------------------------------------------------------------------------
\* the initialize_state runs that the history h of a stream has seen
Resets(h) == SelectSeq(h.log, LAMBDA e : e.ev = "reset")

\* C20: for streams that share one model, the recurrent state of the
\* session is reset only at a stream's own setup: from its setup to its
\* finish or discard a stream sees no other initialize_state run, whatever
\* is called meanwhile, the DS_SetupStream of another stream of the same
\* model included.
NoMidStreamReset ==
  /\ Live => Len(Resets(ghost)) = 1 /\ Resets(ghost)[1].flag
  /\ other.pc = "active" => Len(Resets(other.g)) = 1 /\ Resets(other.g)[1].flag

----------------------------------------------------------------------------
\* the feature vectors that csf_mfcc has produced and the stream has pushed
RealVectors == SelectSeq(Events("push"), LAMBDA e : ~e.flag)

\* C21: frame conservation.  In a stream whose csf_mfcc calls each returned
\* one vector, once finishStream has run its final batch the timesteps
\* handed to processMfccWindow over all the feeds and the finish are as many
\* as the feature vectors produced (one per csf_mfcc call, the one of the
\* flush included when the flush is not skipped); the frame counts of all
\* the session->Run calls add up to that number; and if none of the calls
\* failed the accumulated logits hold that many frames of num_classes
\* values.
FrameConservation ==
  (pc \in {"batched", "finished"} /\ ~ghost.aborted) =>
     /\ Len(RealVectors) = Len(Events("mfcc"))
     /\ Len(Events("timestep")) = Len(RealVectors)
     /\ Frames(Events("infer")) = Len(RealVectors)
     /\ ghost.failed = {} =>
           Len(stream.accumulated_logits) = Len(RealVectors) * NumClasses

\* a finished stream with context on both sides, several vectors, the last
\* of them from the flush, and no failed call
FrameConservationWitness ==
  /\ pc = "finished"
  /\ ghost.failed = {}
  /\ model.n_context > 0
  /\ Len(RealVectors) >= 3
  /\ EventsIn("mfcc", "finish") # <<>>
  /\ Len(stream.accumulated_logits) = Len(RealVectors) * NumClasses
====
